---------------------------- MODULE Spec2Model ----------------------------
(***************************************************************************)
(* Ground-Control: export of issue-tracker tickets into a directory tree.  *)
(* Model of src/src/ground_control/main.py.                                *)
(*                                                                         *)
(* Text is modelled as a sequence of one-character strings, so that        *)
(* truncation, character replacement and stripping are computed, not       *)
(* assumed.  A path is a sequence of path components.                      *)
(***************************************************************************)
EXTENDS Integers, Sequences, FiniteSets, TLC

VARIABLES
    pc,           \* position of main() / of the call under test
    env,          \* environment read at import: JIRA_USERNAME, JIRA_API_TOKEN
    client,       \* TRUE once JIRA(...) has been constructed
    net_calls,    \* number of requests sent to the tracker
    matching,     \* number of issues the query matches in the tracker
    start_at,     \* main: offset of the next page to request
    all_issues,   \* main: the fetched batch
    links,        \* key -> parent fields of the issue, as the tracker returned them
    initiatives,  \* main: partition of all_issues
    epics,
    others,
    idx,          \* index of the next issue in the loop named by pc
    issue_dirs,   \* main: key -> directory path
    n_created,    \* key -> number of create_ticket_directory calls made for it
    fs,           \* filesystem: path -> entry
    main_ret,     \* what main() returned (<<>> is None), once it has
    exc,          \* the exception that ended the run and the issue it came from
    arg,          \* last call of the function under test (single-function runs)
    ret,          \* its result
    prev          \* the call before it, its result and the filesystem it left;
                  \* for cleanup_directory, the filesystem the call started from

vars == <<pc, env, client, net_calls, matching, start_at, all_issues, links, initiatives, epics,
          others, idx, issue_dirs, n_created, fs, main_ret, exc, arg, ret, prev>>

(***************************************************************************)
(* Bounds of the model.                                                    *)
(***************************************************************************)
MaxIssues == 3
MaxCalls == 2
MaxMatching == 60

(***************************************************************************)
(* Text constants.                                                         *)
(***************************************************************************)
OUTPUT_DIR == <<"t", "i", "c", "k", "e", "t", "s">>
UNASSIGNED == <<"0", "-", "U", "N", "A", "S", "S", "I", "G", "N", "E", "D">>
METADATA_JSON == <<"m", "e", "t", "a", "d", "a", "t", "a", ".", "j", "s", "o", "n">>
TICKET_MD == <<"t", "i", "c", "k", "e", "t", ".", "m", "d">>
ELLIPSIS == <<".", ".", ".">>
INVALID_CHARS == <<"<", ">", ":", "\"", "/", "\\", "|", "?", "*">>
STRIP_CHARS == {".", " "}
UpperCase == <<"A", "B", "C", "D", "E", "F", "G", "H", "I", "J", "K", "L", "M",
               "N", "O", "P", "Q", "R", "S", "T", "U", "V", "W", "X", "Y", "Z">>
LowerCase == <<"a", "b", "c", "d", "e", "f", "g", "h", "i", "j", "k", "l", "m",
               "n", "o", "p", "q", "r", "s", "t", "u", "v", "w", "x", "y", "z">>
PLACEHOLDER_USER == "<your-email>"
PLACEHOLDER_TOKEN == "<your-api-token>"
SummaryLimit == 50
SummaryKeep == 47
max_results == 50
IssueCap == 50

(***************************************************************************)
(* str.lower, `in`, str.replace, str.strip                                 *)
(***************************************************************************)
LowerOf ==
    [c \in {UpperCase[j] : j \in 1..Len(UpperCase)} |->
        LowerCase[CHOOSE j \in 1..Len(UpperCase) : UpperCase[j] = c]]

LowerChar(c) == IF c \in DOMAIN LowerOf THEN LowerOf[c] ELSE c

ToLower(s) == [i \in 1..Len(s) |-> LowerChar(s[i])]

Contains(sub, s) ==
    \E i \in 0..(Len(s) - Len(sub)) : SubSeq(s, i + 1, i + Len(sub)) = sub

Replace(s, c, r) == [i \in 1..Len(s) |-> IF s[i] = c THEN r ELSE s[i]]

RECURSIVE ReplaceEach(_, _)
ReplaceEach(s, chars) ==
    IF chars = <<>> THEN s
    ELSE ReplaceEach(Replace(s, Head(chars), "_"), Tail(chars))

RECURSIVE LStrip(_, _)
LStrip(s, chars) ==
    IF s # <<>> /\ Head(s) \in chars THEN LStrip(Tail(s), chars) ELSE s

RECURSIVE RStrip(_, _)
RStrip(s, chars) ==
    IF s # <<>> /\ s[Len(s)] \in chars
    THEN RStrip(SubSeq(s, 1, Len(s) - 1), chars)
    ELSE s

Strip(s, chars) == RStrip(LStrip(s, chars), chars)

sanitize_filename(s) == Strip(ReplaceEach(s, INVALID_CHARS), STRIP_CHARS)

(***************************************************************************)
(* get_type_prefix                                                         *)
(***************************************************************************)
INI == <<"I", "N", "I">>
EPIC == <<"E", "P", "I", "C">>
STORY == <<"S", "T", "O", "R", "Y">>
TASK == <<"T", "A", "S", "K">>
initiative_word == <<"i", "n", "i", "t", "i", "a", "t", "i", "v", "e">>
epic_word == <<"e", "p", "i", "c">>
story_word == <<"s", "t", "o", "r", "y">>

get_type_prefix(issue_type) ==
    LET type_lower == ToLower(issue_type) IN
    IF Contains(initiative_word, type_lower) THEN INI
    ELSE IF Contains(epic_word, type_lower) THEN EPIC
    ELSE IF Contains(story_word, type_lower) THEN STORY
    ELSE TASK

(***************************************************************************)
(* Issue fields.  An attribute of issue.fields is absent ("missing"),      *)
(* present and None ("null"), or present with a value.                     *)
(***************************************************************************)
Missing == [tag |-> "missing"]
Null == [tag |-> "null"]
ParentRef(k, t) == [tag |-> "issue", key |-> k, type |-> t]
Str(s) == [tag |-> "str", val |-> s]

HasAttr(field) == field.tag # "missing"
Truthy(field) == field.tag = "str" /\ field.val # <<>>

TEpic == <<"E", "p", "i", "c">>
NoParent == [tag |-> "none"]
Parent(k, t) == [tag |-> "parent", key |-> k, type |-> t]

(***************************************************************************)
(* get_issue_relationships.  The result names the exception raised, if     *)
(* any: parent.key on a parent attribute that is None is an               *)
(* AttributeError.                                                         *)
(***************************************************************************)
get_issue_relationships(issue) ==
    IF HasAttr(issue.parent)
    THEN IF issue.parent.tag = "null"
         THEN [exc |-> "AttributeError", parent |-> NoParent, children |-> <<>>]
         ELSE [exc |-> "none",
               parent |-> Parent(issue.parent.key, issue.parent.type),
               children |-> <<>>]
    ELSE IF HasAttr(issue.customfield_10014) /\ Truthy(issue.customfield_10014)
    THEN [exc |-> "none",
          parent |-> Parent(issue.customfield_10014.val, TEpic),
          children |-> <<>>]
    ELSE [exc |-> "none", parent |-> NoParent, children |-> <<>>]

(***************************************************************************)
(* Filesystem: a function from paths to entries.  os.path.join,            *)
(* os.makedirs(exist_ok=True), open(path, "w").                            *)
(***************************************************************************)
Dir == [kind |-> "dir"]
File(content) == [kind |-> "file", content |-> content]

Join(base, name) == Append(base, name)

Prefixes(p) == {SubSeq(p, 1, k) : k \in 1..Len(p)}

IsDir(f, p) == p \in DOMAIN f /\ f[p].kind = "dir"
IsFile(f, p) == p \in DOMAIN f /\ f[p].kind = "file"

makedirs(f, p) ==
    IF \E q \in Prefixes(p) : IsFile(f, q)
    THEN [exc |-> "FileExistsError", fs |-> f]
    ELSE [exc |-> "none",
          fs |-> f @@ [q \in Prefixes(p) |-> Dir]]

\* open(path, "a") in place of open(path, "w")
open_a(f, p, content) ==
    (p :> File((IF IsFile(f, p) THEN f[p].content ELSE << >>) \o content)) @@ f

open_w(f, p, content) ==
    (p :> File(content)) @@ f

(***************************************************************************)
(* create_ticket_directory                                                 *)
(***************************************************************************)
Truncated(summary) ==
    IF Len(summary) > SummaryLimit
    THEN SubSeq(summary, 1, SummaryKeep) \o ELLIPSIS
    ELSE summary

\* the directory name without the issue key
DirName_NoKey(issue) ==
    LET type_prefix == get_type_prefix(issue.issuetype)
        summary == Truncated(issue.summary)
        dir_name == type_prefix \o <<"-">> \o summary
    IN  Strip(ReplaceEach(dir_name, INVALID_CHARS), STRIP_CHARS)

DirName(issue) ==
    LET type_prefix == get_type_prefix(issue.issuetype)
        summary == Truncated(issue.summary)
        dir_name == type_prefix \o <<"-">> \o issue.key \o <<"-">> \o summary
    IN  Strip(ReplaceEach(dir_name, INVALID_CHARS), STRIP_CHARS)

\* json.dump(metadata, f, indent=2); f.write("\n")
MetadataDoc(issue, rel) ==
    << [sec |-> "json", key |-> issue.key, id |-> issue.id,
        type |-> issue.issuetype, summary |-> issue.summary,
        parent |-> rel.parent],
       [sec |-> "newline"] >>

\* ticket.md up to the description: everything written before jira.comments
TicketHead(issue, rel) ==
    << [sec |-> "title", key |-> issue.key, summary |-> issue.summary],
       [sec |-> "metadata", type |-> issue.issuetype] >>
    \o (IF rel.parent # NoParent
        THEN << [sec |-> "parent", key |-> rel.parent.key] >>
        ELSE << >>)
    \o << [sec |-> "description"] >>

\* the comments section, if any, and the closing newline
TicketTail(issue) ==
    (IF issue.ncomments > 0
     THEN << [sec |-> "comments", n |-> issue.ncomments] >>
     ELSE << >>)
    \o << [sec |-> "newline"] >>

\* parent_dir is ignored
BaseDir_AlwaysOutput(parent_dir) == << OUTPUT_DIR >>

\* base_dir = parent_dir if parent_dir else OUTPUT_DIR
BaseDir(parent_dir) ==
    IF parent_dir # << >> THEN parent_dir ELSE << OUTPUT_DIR >>

\* parent_dir: a path, or << >> for None.  fault: "comments" when the request
\* jira.comments(issue) of this call fails, else "none".
create_ticket_directory(f, issue, parent_dir, fault) ==
    LET base_dir == BaseDir(parent_dir)
        issue_dir == Join(base_dir, DirName(issue))
        made == makedirs(f, issue_dir)
        relationships == get_issue_relationships(issue)
        metadata_path == Join(issue_dir, METADATA_JSON)
        ticket_file == Join(issue_dir, TICKET_MD)
        f1 == made.fs
        f2 == open_w(f1, metadata_path, MetadataDoc(issue, relationships))
        f3 == open_w(f2, ticket_file, TicketHead(issue, relationships))
        f4 == open_w(f2, ticket_file,
                     TicketHead(issue, relationships) \o TicketTail(issue))
    IN  IF made.exc # "none"
        THEN [exc |-> made.exc, fs |-> f, ret |-> << >>]
        ELSE IF relationships.exc # "none"
        THEN [exc |-> relationships.exc, fs |-> f1, ret |-> << >>]
        ELSE IF IsDir(f1, metadata_path)
        THEN [exc |-> "OSError", fs |-> f1, ret |-> << >>]
        ELSE IF IsDir(f2, ticket_file)
        THEN [exc |-> "OSError", fs |-> f2, ret |-> << >>]
        ELSE IF fault = "comments"
        THEN [exc |-> "JIRAError", fs |-> f3, ret |-> << >>]
        ELSE [exc |-> "none", fs |-> f4, ret |-> issue_dir]

(***************************************************************************)
(* Module-level configuration (lines 7-15) and Python values.              *)
(***************************************************************************)
Unset == << >>
EnvGet(name, default) == IF env[name] = Unset THEN default ELSE env[name][1]
USERNAME == EnvGet("JIRA_USERNAME", PLACEHOLDER_USER)
API_TOKEN == EnvGet("JIRA_API_TOKEN", PLACEHOLDER_TOKEN)

NotReturned == [tag |-> "running"]
PyNone == [tag |-> "None"]
PyInt(n) == [tag |-> "int", val |-> n]

NoException == [type |-> "none", key |-> << >>]
Exception(e, k) == [type |-> e, key |-> k]
NoCall == [tag |-> "none"]
NoResult == [exc |-> "not called", ret |-> << >>]

unassigned_dir == Join(<< OUTPUT_DIR >>, UNASSIGNED)

(***************************************************************************)
(* What the tracker may return.  The i-th issue of a batch has key P-i;    *)
(* P-99 is an issue of the project that the query did not return.          *)
(***************************************************************************)
Digits == <<"1", "2", "3", "4", "5", "6", "7", "8", "9">>
Key(i) == <<"P", "-", Digits[i]>>
AbsentKey == <<"P", "-", "9", "9">>
TInitiative == <<"I", "n", "i", "t", "i", "a", "t", "i", "v", "e">>
TStory == <<"S", "t", "o", "r", "y">>
TBug == <<"B", "u", "g">>
RunTypes == {TInitiative, TEpic, TStory}
RunSummaries == << <<"a", "/", "b">>, <<"x", ".">> >>
SummaryOf(i) == RunSummaries[((i - 1) % Len(RunSummaries)) + 1]

Issue(i, t) ==
    [key |-> Key(i), id |-> i, issuetype |-> t, summary |-> SummaryOf(i),
     ncomments |-> i % 2]

\* The parent fields of an issue.  An epic is referred to through the legacy
\* epic-link field, any other issue through the parent field.
NoLink == [parent |-> Missing, customfield_10014 |-> Null]
NullParent == [parent |-> Null, customfield_10014 |-> Null]
EpicLink(k) == [parent |-> Missing, customfield_10014 |-> Str(k)]
LinkTo(target) ==
    IF get_type_prefix(target.issuetype) = EPIC
    THEN EpicLink(target.key)
    ELSE [parent |-> ParentRef(target.key, target.issuetype),
          customfield_10014 |-> Null]
LinkChoices(issue) ==
    {NoLink, NullParent, EpicLink(AbsentKey)}
    \cup {LinkTo(all_issues[j]) :
             j \in {i \in 1..Len(all_issues) : all_issues[i].key # issue.key}}

WithLink(issue, link) ==
    [key |-> issue.key, id |-> issue.id, issuetype |-> issue.issuetype,
     summary |-> issue.summary, ncomments |-> issue.ncomments,
     parent |-> link.parent, customfield_10014 |-> link.customfield_10014]

Faults == {"none", "comments"}

(***************************************************************************)
(* main(), lines 172-266                                                   *)
(***************************************************************************)
EnvStates ==
    { [JIRA_USERNAME |-> u, JIRA_API_TOKEN |-> t] :
        u \in {Unset, <<PLACEHOLDER_USER>>, <<"me@example.com">>},
        t \in {Unset, <<PLACEHOLDER_TOKEN>>, <<"secret">>} }

RootStates ==
    { << >>,
      (<< OUTPUT_DIR >> :> Dir),
      (<< OUTPUT_DIR >> :> Dir)
          @@ (<< OUTPUT_DIR, <<"f", "i", "l", "e", ".", "t", "x", "t">> >>
                  :> File(<< [sec |-> "stale"] >>)),
      (<< OUTPUT_DIR >> :> File(<< [sec |-> "stale"] >>)) }

Init ==
    /\ pc = "main"
    /\ env \in EnvStates
    /\ client = FALSE
    /\ net_calls = 0
    /\ matching \in 0..MaxIssues
    /\ start_at = 0
    /\ all_issues = << >>
    /\ links = << >>
    /\ initiatives = << >>
    /\ epics = << >>
    /\ others = << >>
    /\ idx = 0
    /\ issue_dirs = << >>
    /\ n_created = << >>
    /\ fs \in RootStates
    /\ main_ret = NotReturned
    /\ exc = NoException
    /\ arg = NoCall
    /\ ret = NoResult
    /\ prev = NoCall

\* lines 173-181
CheckCredentials ==
    /\ pc = "main"
    /\ IF USERNAME = PLACEHOLDER_USER \/ API_TOKEN = PLACEHOLDER_TOKEN
       THEN pc' = "returned" /\ main_ret' = PyNone
       ELSE pc' = "connect" /\ UNCHANGED main_ret
    /\ UNCHANGED <<env, client, net_calls, matching, start_at, all_issues, links,
                   initiatives, epics, others, idx, issue_dirs, n_created, fs,
                   exc, arg, ret, prev>>

\* lines 183-187
Connect ==
    /\ pc = "connect"
    /\ client' = TRUE
    /\ pc' = "search"
    /\ UNCHANGED <<env, net_calls, matching, start_at, all_issues, links,
                   initiatives, epics, others, idx, issue_dirs, n_created, fs,
                   main_ret, exc, arg, ret, prev>>

\* lines 200-218, for a query matching fewer than max_results issues that
\* the tracker returns in one page: the loop ends after that page
Search ==
    /\ pc = "search"
    /\ matching < max_results
    /\ \E types \in [1..matching -> RunTypes] :
         all_issues' = [i \in 1..matching |-> Issue(i, types[i])]
    /\ start_at' = IF matching > 0 THEN start_at + max_results ELSE start_at
    /\ net_calls' = net_calls + 1
    /\ pc' = "prepare"
    /\ UNCHANGED <<env, client, matching, links, initiatives, epics, others, idx,
                   issue_dirs, n_created, fs, main_ret, exc, arg, ret, prev>>

IsInitiative(issue) == Contains(initiative_word, ToLower(issue.issuetype))
IsEpic(issue) ==
    ~IsInitiative(issue) /\ Contains(epic_word, ToLower(issue.issuetype))
IsOther(issue) == ~IsInitiative(issue) /\ ~IsEpic(issue)

\* The first issue to process at or after loop number `from`
\* (1: initiatives, 2: epics, 3: others), or the end of main.
FirstPos(from, ini, ep, oth) ==
    IF from <= 1 /\ ini # << >> THEN [pc |-> "initiatives", idx |-> 1]
    ELSE IF from <= 2 /\ ep # << >> THEN [pc |-> "epics", idx |-> 1]
    ELSE IF from <= 3 /\ oth # << >> THEN [pc |-> "others", idx |-> 1]
    ELSE [pc |-> "done", idx |-> 0]

NextPos(loopno, list) ==
    IF idx < Len(list)
    THEN [pc |-> pc, idx |-> idx + 1]
    ELSE FirstPos(loopno + 1, initiatives, epics, others)

\* lines 220-240
PrepareOutput ==
    /\ pc = "prepare"
    /\ LET root == makedirs(fs, << OUTPUT_DIR >>)
           unassigned == makedirs(root.fs, unassigned_dir)
           ini == SelectSeq(all_issues, IsInitiative)
           ep == SelectSeq(all_issues, IsEpic)
           oth == SelectSeq(all_issues, IsOther)
           first == FirstPos(1, ini, ep, oth)
       IN  IF root.exc # "none"
           THEN /\ pc' = "raised"
                /\ exc' = Exception(root.exc, << >>)
                /\ UNCHANGED <<fs, initiatives, epics, others, idx, main_ret>>
           ELSE /\ fs' = unassigned.fs
                /\ initiatives' = ini
                /\ epics' = ep
                /\ others' = oth
                /\ pc' = first.pc
                /\ idx' = first.idx
                /\ main_ret' = IF first.pc = "done" THEN PyNone ELSE main_ret
                /\ UNCHANGED exc
    /\ UNCHANGED <<env, client, net_calls, matching, start_at, all_issues, links,
                   issue_dirs, n_created, arg, ret, prev>>

\* issue_dirs[issue.key] = create_ticket_directory(issue, jira, parent_dir),
\* then the next iteration, the next loop or the end of main
Materialize(issue, parent_dir, fault, next) ==
    \E r \in {create_ticket_directory(fs, issue, parent_dir, fault)} :
    /\ fs' = r.fs
    /\ net_calls' = IF r.exc = "none" \/ r.exc = "JIRAError"
                    THEN net_calls + 1 ELSE net_calls
    /\ IF r.exc # "none"
       THEN /\ pc' = "raised"
            /\ exc' = Exception(r.exc, issue.key)
            /\ UNCHANGED <<issue_dirs, n_created, idx, main_ret>>
       ELSE /\ issue_dirs' = (issue.key :> r.ret) @@ issue_dirs
            /\ n_created' = (issue.key :>
                               (IF issue.key \in DOMAIN n_created
                                THEN n_created[issue.key] + 1 ELSE 1))
                            @@ n_created
            /\ pc' = next.pc
            /\ idx' = next.idx
            /\ main_ret' = IF next.pc = "done" THEN PyNone ELSE main_ret
            /\ UNCHANGED exc

Raise(e, issue) ==
    /\ pc' = "raised"
    /\ exc' = Exception(e, issue.key)
    /\ UNCHANGED <<fs, net_calls, issue_dirs, n_created, idx, main_ret>>

\* the registered parent directory is never used
ParentDirFor_AlwaysDefault(relationships, dirs, default) == default

\* lines 249-252, 257-260: the parent's directory if the parent key is already
\* registered, else the loop's default
ParentDirFor(relationships, dirs, default) ==
    IF relationships.parent # NoParent
       /\ relationships.parent.key \in DOMAIN dirs
    THEN dirs[relationships.parent.key]
    ELSE default

\* lines 243-244
ProcessInitiative ==
    /\ pc = "initiatives"
    /\ \E link \in LinkChoices(initiatives[idx]), fault \in Faults :
         LET issue == WithLink(initiatives[idx], link) IN
         /\ links' = (issue.key :> link) @@ links
         /\ Materialize(issue, << >>, fault, NextPos(1, initiatives))
    /\ UNCHANGED <<env, client, matching, start_at, all_issues, initiatives,
                   epics, others, arg, ret, prev>>

\* lines 247-252
ProcessEpic ==
    /\ pc = "epics"
    /\ \E link \in LinkChoices(epics[idx]), fault \in Faults :
         LET issue == WithLink(epics[idx], link)
             relationships == get_issue_relationships(issue)
         IN  /\ links' = (issue.key :> link) @@ links
             /\ IF relationships.exc # "none"
                THEN Raise(relationships.exc, issue)
                ELSE Materialize(issue,
                                 ParentDirFor(relationships, issue_dirs, << >>),
                                 fault, NextPos(2, epics))
    /\ UNCHANGED <<env, client, matching, start_at, all_issues, initiatives,
                   epics, others, arg, ret, prev>>

\* lines 255-260
ProcessOther ==
    /\ pc = "others"
    /\ \E link \in LinkChoices(others[idx]), fault \in Faults :
         LET issue == WithLink(others[idx], link)
             relationships == get_issue_relationships(issue)
         IN  /\ links' = (issue.key :> link) @@ links
             /\ IF relationships.exc # "none"
                THEN Raise(relationships.exc, issue)
                ELSE Materialize(issue,
                                 ParentDirFor(relationships, issue_dirs,
                                              unassigned_dir),
                                 fault, NextPos(3, others))
    /\ UNCHANGED <<env, client, matching, start_at, all_issues, initiatives,
                   epics, others, arg, ret, prev>>

Next ==
    \/ CheckCredentials
    \/ Connect
    \/ Search
    \/ PrepareOutput
    \/ ProcessInitiative
    \/ ProcessEpic
    \/ ProcessOther

Spec == Init /\ [][Next]_vars

(***************************************************************************)
(* get_issue_relationships on its own: one call on any issue of RelIssues. *)
(***************************************************************************)
MainIdle ==
    /\ env = [JIRA_USERNAME |-> Unset, JIRA_API_TOKEN |-> Unset]
    /\ client = FALSE
    /\ matching = 0
    /\ start_at = 0
    /\ all_issues = << >>
    /\ links = << >>
    /\ initiatives = << >>
    /\ epics = << >>
    /\ others = << >>
    /\ idx = 0
    /\ issue_dirs = << >>
    /\ n_created = << >>
    /\ main_ret = NotReturned
    /\ exc = NoException

mainVars == <<env, client, matching, start_at, all_issues, links, initiatives, epics, others, idx,
              issue_dirs, n_created, main_ret, exc>>

RelParents ==
    {Missing, Null}
    \cup {ParentRef(k, t) : k \in {Key(2), Key(3), AbsentKey},
                            t \in {TInitiative, TEpic, TStory}}
RelEpicLinks ==
    {Missing, Null, Str(<< >>), Str(Key(2)), Str(Key(3)), Str(AbsentKey)}
RelIssues ==
    { [key |-> Key(1), parent |-> p, customfield_10014 |-> c] :
        p \in RelParents, c \in RelEpicLinks }

InitRel ==
    /\ MainIdle
    /\ pc = "resolve"
    /\ net_calls = 0
    /\ fs = << >>
    /\ arg \in RelIssues
    /\ ret = NoResult
    /\ prev = NoCall

Resolve ==
    /\ pc = "resolve"
    /\ ret' = get_issue_relationships(arg)
    /\ pc' = "resolved"
    /\ UNCHANGED <<mainVars, net_calls, fs, arg, prev>>

NextRel == Resolve

SpecRel == InitRel /\ [][NextRel]_vars

(***************************************************************************)
(* create_ticket_directory on its own: up to MaxCalls calls in a row on    *)
(* one filesystem, each on any issue of MatIssues and any base directory.  *)
(***************************************************************************)
Repeat(c, n) == [i \in 1..n |-> c]
MatSummaries ==
    { <<"a", "/", "b", ".">>,
      Repeat("s", SummaryLimit),
      Repeat("s", SummaryKeep - 1) \o <<" ", "l", "o", "n", "g">>,
      <<"T", "h", "i", "s", " ", "i", "s", " ", "a", " ", "v", "e", "r", "y",
        " ", "l", "o", "n", "g", " ", "s", "u", "m", "m", "a", "r", "y", " ",
        "t", "h", "a", "t", " ", "s", "h", "o", "u", "l", "d", " ", "b", "e",
        " ", "t", "r", "u", "n", "c", "a", "t", "e", "d", " ", "b", "e", "c",
        "a", "u", "s", "e", " ", "i", "t", " ", "e", "x", "c", "e", "e", "d",
        "s", " ", "f", "i", "f", "t", "y", " ", "c", "h", "a", "r", "a", "c",
        "t", "e", "r", "s">> }
MatIssues ==
    { [key |-> k, id |-> 1, issuetype |-> t, summary |-> s, ncomments |-> 1,
       parent |-> Missing, customfield_10014 |-> Null] :
        k \in {Key(1), Key(1) \o <<"2">>}, t \in {TStory, TBug},
        s \in MatSummaries }
    \cup { [key |-> Key(3), id |-> 3, issuetype |-> TStory,
            summary |-> <<"n">>, ncomments |-> 0,
            parent |-> Null, customfield_10014 |-> Null] }
MatBases == {<< >>, unassigned_dir}

InitMat ==
    /\ MainIdle
    /\ pc = "materialize"
    /\ net_calls = 0
    /\ fs = << >>
    /\ arg = NoCall
    /\ ret = NoResult
    /\ prev = NoCall

Call ==
    /\ pc = "materialize"
    /\ net_calls < MaxCalls
    /\ \E issue \in MatIssues, parent_dir \in MatBases :
         \E r \in {create_ticket_directory(fs, issue, parent_dir, "none")} :
            /\ fs' = r.fs
            /\ arg' = [tag |-> "call", issue |-> issue, parent_dir |-> parent_dir]
            /\ ret' = [exc |-> r.exc, ret |-> r.ret]
            /\ prev' = IF arg = NoCall THEN NoCall
                       ELSE [tag |-> "call", arg |-> arg, ret |-> ret, fs |-> fs]
    /\ net_calls' = net_calls + 1
    /\ UNCHANGED <<mainVars, pc>>

NextMat == Call

SpecMat == InitMat /\ [][NextMat]_vars

(***************************************************************************)
(* cleanup_directory on its own: one call on any tree of CleanTrees and    *)
(* any directory argument of CleanTargets.  prev keeps the filesystem the  *)
(* call started from.                                                      *)
(***************************************************************************)
exists(f, p) == p \in DOMAIN f

StrictlyUnder(p, d) == Len(p) > Len(d) /\ SubSeq(p, 1, Len(d)) = d

\* os.listdir: the names of the entries directly inside d
listdir(f, d) ==
    {q[Len(q)] : q \in {r \in DOMAIN f : Len(r) = Len(d) + 1 /\ StrictlyUnder(r, d)}}

Without(f, gone) == [q \in DOMAIN f \ gone |-> f[q]]

\* os.remove
remove(f, p) == Without(f, {p})

\* os.rmdir in place of shutil.rmtree: the entries below p stay
rmtree_TopOnly(f, p) == Without(f, {p})

\* shutil.rmtree
rmtree(f, p) == Without(f, {p} \cup {q \in DOMAIN f : StrictlyUnder(q, p)})

\* lines 30-36, for the items in the order os.listdir gave them
RECURSIVE RemoveItems(_, _, _)
RemoveItems(f, directory, items) ==
    IF items = << >> THEN f
    ELSE LET item_path == Join(directory, Head(items))
             f1 == IF IsDir(f, item_path)
                   THEN rmtree(f, item_path)
                   ELSE remove(f, item_path)
         IN  RemoveItems(f1, directory, Tail(items))

Orderings(S) ==
    {o \in [1..Cardinality(S) -> S] :
        \A i, j \in 1..Cardinality(S) : i # j => o[i] # o[j]}

\* os.listdir on a path that is not a directory raises NotADirectoryError
cleanup_directory(f, directory, order) ==
    IF ~exists(f, directory) THEN [exc |-> "none", fs |-> f]
    ELSE IF ~IsDir(f, directory) THEN [exc |-> "NotADirectoryError", fs |-> f]
    ELSE [exc |-> "none", fs |-> RemoveItems(f, directory, order)]

NameA == <<"a">>
NameB == <<"b">>
NameX == <<"x">>
NameY == <<"y">>
NameZ == <<"z">>
CleanPaths ==
    { << OUTPUT_DIR >>,
      << OUTPUT_DIR, NameA >>, << OUTPUT_DIR, NameB >>,
      << OUTPUT_DIR, NameA, NameX >>, << OUTPUT_DIR, NameA, NameY >>,
      << OUTPUT_DIR, NameA, NameX, NameZ >> }
StaleFile == File(<< [sec |-> "stale"] >>)
\* every tree over CleanPaths: an entry's parent is a directory of the tree
CleanTrees ==
    UNION { {f \in [S -> {Dir, StaleFile}] :
                \A q \in S : Len(q) > 1 =>
                    /\ SubSeq(q, 1, Len(q) - 1) \in S
                    /\ f[SubSeq(q, 1, Len(q) - 1)] = Dir} :
            S \in SUBSET CleanPaths }
CleanTargets ==
    { << OUTPUT_DIR >>, << OUTPUT_DIR, NameA >>, << OUTPUT_DIR, NameA, NameX >> }

InitClean ==
    /\ MainIdle
    /\ pc = "cleanup"
    /\ net_calls = 0
    /\ fs \in CleanTrees
    /\ arg \in CleanTargets
    /\ ret = NoResult
    /\ prev = NoCall

Cleanup ==
    /\ pc = "cleanup"
    /\ \E order \in Orderings(listdir(fs, arg)) :
         \E r \in {cleanup_directory(fs, arg, order)} :
            /\ fs' = r.fs
            /\ ret' = [exc |-> r.exc, ret |-> << >>]
    /\ prev' = [tag |-> "before", fs |-> fs]
    /\ pc' = "cleaned"
    /\ UNCHANGED <<mainVars, net_calls, arg>>

NextClean == Cleanup

SpecClean == InitClean /\ [][NextClean]_vars

(***************************************************************************)
(* The fetch loop of main on its own (lines 200-218), for a query matching *)
(* up to MaxMatching issues.  An issue is named by its position in the     *)
(* query result.  arg and ret are the last search_issues request and the   *)
(* page it returned.                                                       *)
(***************************************************************************)
Min(a, b) == IF a < b THEN a ELSE b

\* jira.search_issues(jql, startAt, maxResults): the tracker returns at most
\* maxResults of the issues from startAt on, possibly fewer than remain
PageSizes(startAt, maxResults) ==
    0..Min(maxResults, IF matching > startAt THEN matching - startAt ELSE 0)

Page(startAt, n) == [i \in 1..n |-> startAt + i]

\* the loop goes on after a short page
ShortPage_Never(issues_batch) == FALSE

\* line 217
ShortPage(issues_batch) == Len(issues_batch) < max_results

InitPage ==
    /\ pc = "search"
    /\ env = [JIRA_USERNAME |-> <<"me@example.com">>, JIRA_API_TOKEN |-> <<"secret">>]
    /\ client = TRUE
    /\ net_calls = 0
    /\ matching \in 0..MaxMatching
    /\ start_at = 0
    /\ all_issues = << >>
    /\ links = << >>
    /\ initiatives = << >>
    /\ epics = << >>
    /\ others = << >>
    /\ idx = 0
    /\ issue_dirs = << >>
    /\ n_created = << >>
    /\ fs = << >>
    /\ main_ret = NotReturned
    /\ exc = NoException
    /\ arg = NoCall
    /\ ret = NoResult
    /\ prev = NoCall

\* one iteration of the while loop, lines 205-218
FetchPage ==
    /\ pc = "search"
    /\ \E n \in PageSizes(start_at, max_results) :
         LET issues_batch == Page(start_at, n)
             extended == all_issues \o issues_batch
         IN  /\ arg' = [tag |-> "search", startAt |-> start_at,
                        maxResults |-> max_results]
             /\ ret' = [exc |-> "none", ret |-> issues_batch]
             /\ IF issues_batch = << >>
                THEN /\ pc' = "fetched"
                     /\ UNCHANGED <<all_issues, start_at>>
                ELSE /\ start_at' = start_at + max_results
                     /\ IF Len(extended) >= IssueCap
                        THEN /\ all_issues' = SubSeq(extended, 1, IssueCap)
                             /\ pc' = "fetched"
                        ELSE /\ all_issues' = extended
                             /\ pc' = IF ShortPage(issues_batch)
                                      THEN "fetched" ELSE "search"
    /\ net_calls' = net_calls + 1
    /\ UNCHANGED <<env, client, matching, links, initiatives, epics, others, idx,
                   issue_dirs, n_created, fs, main_ret, exc, prev>>

NextPage == FetchPage

\* main is sequential code: the loop keeps running while it has not ended
SpecPage == InitPage /\ [][NextPage]_vars /\ WF_vars(NextPage)

(***************************************************************************)
(* Vocabulary of the properties.                                           *)
(***************************************************************************)
BatchKeys == {all_issues[i].key : i \in 1..Len(all_issues)}
PosOf(k) == CHOOSE i \in 1..Len(all_issues) : all_issues[i].key = k
TierNo(i) ==
    IF IsInitiative(all_issues[i]) THEN 1
    ELSE IF IsEpic(all_issues[i]) THEN 2 ELSE 3
\* issue j is processed before issue i
ProcessedEarlier(j, i) ==
    TierNo(j) < TierNo(i) \/ (TierNo(j) = TierNo(i) /\ j < i)
\* the parent fields of issue i have been read
Read(i) == all_issues[i].key \in DOMAIN links
Resolved(i) ==
    get_issue_relationships(WithLink(all_issues[i], links[all_issues[i].key]))
Last(p) == p[Len(p)]
DirOf(p) == SubSeq(p, 1, Len(p) - 1)
TicketDirs ==
    {p \in DOMAIN fs : IsDir(fs, p) /\ Len(p) >= 2 /\ p # unassigned_dir}
Complete(content) ==
    content # << >> /\ Last(content) = [sec |-> "newline"]
HasCompletePair(d) ==
    /\ IsFile(fs, Join(d, METADATA_JSON))
    /\ Complete(fs[Join(d, METADATA_JSON)].content)
    /\ IsFile(fs, Join(d, TICKET_MD))
    /\ Complete(fs[Join(d, TICKET_MD)].content)
IOFaults == {"OSError", "JIRAError"}

(***************************************************************************)
(* C1.  An epic or story/task whose resolved parent key is the key of an   *)
(* issue processed earlier in the run (higher tier, or same tier and       *)
(* earlier in the batch) is materialized directly inside that parent's     *)
(* directory, whatever the batch order; a completed run has materialized   *)
(* every such issue.  With an initiative I, an epic E under I and a task T *)
(* under E, T's directory is root/I/E/T.                                   *)
(***************************************************************************)
C1_ChildInsideEarlierParent ==
    \A i \in 1..Len(all_issues) :
       LET k == all_issues[i].key
           r == Resolved(i)
           pk == r.parent.key
           j == PosOf(pk)
       IN
       (Read(i) /\ r.exc = "none" /\ r.parent # NoParent /\ pk \in BatchKeys
          /\ TierNo(i) # 1 /\ ProcessedEarlier(j, i))
       => /\ pc = "done" => k \in DOMAIN issue_dirs
          /\ k \in DOMAIN issue_dirs =>
                /\ pk \in DOMAIN issue_dirs
                /\ DirOf(issue_dirs[k]) = issue_dirs[pk]
                /\ IsDir(fs, issue_dirs[k])
                /\ TierNo(j) = 1 => DirOf(issue_dirs[pk]) = << OUTPUT_DIR >>

\* a finished run over the batch [T under E, E under I, I]: children first
C1_Witness ==
    /\ pc = "done"
    /\ Len(all_issues) = 3
    /\ TierNo(1) = 3 /\ TierNo(2) = 2 /\ TierNo(3) = 1
    /\ Resolved(1).parent # NoParent /\ Resolved(1).parent.key = Key(2)
    /\ Resolved(2).parent # NoParent /\ Resolved(2).parent.key = Key(3)
    /\ issue_dirs[Key(1)] = << OUTPUT_DIR, DirName(all_issues[3]),
                               DirName(all_issues[2]), DirName(all_issues[1]) >>
    /\ HasCompletePair(issue_dirs[Key(1)])

(***************************************************************************)
(* C2.  A story/task whose resolved parent is null, or whose parent key is *)
(* not a key of the fetched batch, is materialized directly under          *)
(* tickets/0-UNASSIGNED; processing it raises nothing unless an I/O        *)
(* operation fails, and a completed run has materialized it.               *)
(***************************************************************************)
C2_OrphanUnderUnassigned ==
    \A i \in 1..Len(all_issues) :
       LET k == all_issues[i].key
           r == Resolved(i)
       IN
       (Read(i) /\ r.exc = "none"
          /\ (r.parent = NoParent \/ r.parent.key \notin BatchKeys)
          /\ TierNo(i) = 3)
       => /\ \/ k \in DOMAIN issue_dirs
             \/ pc = "raised" /\ exc.key = k /\ exc.type \in IOFaults
          /\ k \in DOMAIN issue_dirs =>
                /\ DirOf(issue_dirs[k]) = unassigned_dir
                /\ HasCompletePair(issue_dirs[k])

\* a finished run with a parentless task and a task whose epic was not fetched
C2_Witness ==
    /\ pc = "done"
    /\ Len(all_issues) = 2
    /\ TierNo(1) = 3 /\ TierNo(2) = 3
    /\ Resolved(1).parent = NoParent
    /\ Resolved(2).parent # NoParent /\ Resolved(2).parent.key = AbsentKey
    /\ issue_dirs[Key(1)] = Join(unassigned_dir, DirName(all_issues[1]))
    /\ issue_dirs[Key(2)] = Join(unassigned_dir, DirName(all_issues[2]))

(***************************************************************************)
(* C3.  For an issue whose parent reference is missing or None and whose   *)
(* epic-link field is missing, None or empty, get_issue_relationships      *)
(* returns parent None and children [] and raises nothing.                 *)
(***************************************************************************)
C3_NoReferenceYieldsNull ==
    (pc = "resolved"
       /\ arg.parent \in {Missing, Null}
       /\ ~Truthy(arg.customfield_10014))
    => ret = [exc |-> "none", parent |-> NoParent, children |-> << >>]

(***************************************************************************)
(* C4.  The result of get_issue_relationships is the first match of: a     *)
(* direct parent reference gives {key, type} of that parent, also when an  *)
(* epic link is set; otherwise a non-empty epic link (also when the parent *)
(* attribute is present but None) gives {key: link, type: "Epic"};         *)
(* otherwise the parent is None.                                           *)
(***************************************************************************)
C4_FirstMatchingStrategy ==
    pc = "resolved"
    => /\ ret.exc = "none"
       /\ ret.parent =
             IF arg.parent.tag = "issue"
             THEN Parent(arg.parent.key, arg.parent.type)
             ELSE IF Truthy(arg.customfield_10014)
             THEN Parent(arg.customfield_10014.val, TEpic)
             ELSE NoParent

(***************************************************************************)
(* C5.  A run whose output root exists and is not empty, or exists and is  *)
(* not a directory, fails before any ticket directory or file is created.  *)
(***************************************************************************)
RootNotEmpty ==
    \E p \in DOMAIN fs : Len(p) = 2 /\ p[1] = OUTPUT_DIR /\ p[2] # UNASSIGNED
                         /\ IsFile(fs, p) /\ fs[p].content = << [sec |-> "stale"] >>
RootNotADirectory == IsFile(fs, << OUTPUT_DIR >>)

C5_BadRootAbortsBeforeMaterializing ==
    (RootNotEmpty \/ RootNotADirectory)
    => TicketDirs = {}

(***************************************************************************)
(* C6.  With the username or the API token unset or left at its            *)
(* placeholder, main returns 1 without creating the tracker client,        *)
(* sending a request or creating any directory or file.                    *)
(***************************************************************************)
C6_MissingCredentialsReturnOne ==
    (pc # "main"
       /\ (USERNAME = PLACEHOLDER_USER \/ API_TOKEN = PLACEHOLDER_TOKEN))
    => /\ pc = "returned"
       /\ ~client
       /\ net_calls = 0
       /\ fs \in RootStates
       /\ main_ret = PyInt(1)

(***************************************************************************)
(* C7.  For a summary longer than 50 characters the leaf name returned by  *)
(* create_ticket_directory is prefix-key- followed by the first 47         *)
(* characters of the summary and "...".                                    *)
(***************************************************************************)
C7_LongSummaryLeafEndsWithEllipsis ==
    (arg # NoCall /\ ret.exc = "none"
       /\ Len(arg.issue.summary) > SummaryLimit)
    => Last(ret.ret) =
          get_type_prefix(arg.issue.issuetype) \o <<"-">> \o arg.issue.key
             \o <<"-">> \o SubSeq(arg.issue.summary, 1, SummaryKeep) \o ELLIPSIS

(***************************************************************************)
(* C8.  After a complete run every issue is in exactly one of the three    *)
(* partitions, has been materialized exactly once and has exactly one      *)
(* ticket directory; distinct issues have distinct directory paths.        *)
(***************************************************************************)
Occurrences(list, issue) ==
    Cardinality({j \in 1..Len(list) : list[j] = issue})

C8_OneDirectoryPerIssue ==
    pc = "done"
    => LET dirs == TicketDirs IN
       /\ \A i \in 1..Len(all_issues) :
             LET issue == all_issues[i] IN
             /\ Occurrences(initiatives, issue) + Occurrences(epics, issue)
                  + Occurrences(others, issue) = 1
             /\ issue.key \in DOMAIN n_created
             /\ n_created[issue.key] = 1
             /\ issue.key \in DOMAIN issue_dirs
             /\ issue_dirs[issue.key] \in dirs
             /\ \A j \in 1..Len(all_issues) :
                   i # j => issue_dirs[issue.key] # issue_dirs[all_issues[j].key]
       /\ Cardinality(dirs) = Len(all_issues)

\* a finished run in which two issues of the same type and summary are
\* siblings: only the key tells their leaf names apart
C8_Witness ==
    /\ pc = "done"
    /\ Len(all_issues) = 3
    /\ all_issues[1].issuetype = all_issues[3].issuetype
    /\ all_issues[1].summary = all_issues[3].summary
    /\ DirOf(issue_dirs[Key(1)]) = DirOf(issue_dirs[Key(3)])
    /\ issue_dirs[Key(1)] # issue_dirs[Key(3)]

(***************************************************************************)
(* C9.  In the tree left behind by a run that a filesystem error or a     *)
(* failed comment fetch aborted, every ticket directory holds a complete   *)
(* metadata.json and a complete ticket.md.                                 *)
(***************************************************************************)
C9_AbortLeavesCompletePairs ==
    (pc = "raised" /\ exc.type \in IOFaults \cup {"FileExistsError"})
    => \A d \in TicketDirs : HasCompletePair(d)

(***************************************************************************)
(* C10.  A second create_ticket_directory call with the arguments of the   *)
(* call before it returns the same path and leaves the filesystem as the   *)
(* first call left it: one directory holding one metadata.json and one     *)
(* ticket.md, rewritten, not duplicated or appended to.                    *)
(***************************************************************************)
Children(d) == {p \in DOMAIN fs : Len(p) = Len(d) + 1 /\ SubSeq(p, 1, Len(d)) = d}

C10_RepeatIsIdempotent ==
    (prev # NoCall /\ arg = prev.arg /\ prev.ret.exc = "none")
    => /\ ret = prev.ret
       /\ fs = prev.fs
       /\ Children(ret.ret) = {Join(ret.ret, METADATA_JSON), Join(ret.ret, TICKET_MD)}
       /\ HasCompletePair(ret.ret)
       /\ Len(fs[Join(ret.ret, METADATA_JSON)].content) = 2

\* the same long-summary issue materialized twice into the unassigned folder
C10_Witness ==
    /\ prev # NoCall
    /\ arg = prev.arg
    /\ arg.parent_dir = unassigned_dir
    /\ Len(arg.issue.summary) > SummaryLimit
    /\ prev.ret.exc = "none"
    /\ ret.exc = "none"
    /\ ret.ret = prev.ret.ret

(***************************************************************************)
(* C11.  cleanup_directory(path) on an existing directory removes every    *)
(* entry below path, files and whole subdirectory trees alike, keeps path  *)
(* itself as an (empty) directory and leaves every entry outside path as   *)
(* it was; on a path that does not exist it changes nothing and does not   *)
(* create the path.  It raises nothing in either case.                     *)
(***************************************************************************)
C11_CleanupEmptiesInPlace ==
    (pc = "cleaned" /\ (IsDir(prev.fs, arg) \/ ~exists(prev.fs, arg)))
    => /\ ret.exc = "none"
       /\ fs = Without(prev.fs, {q \in DOMAIN prev.fs : StrictlyUnder(q, arg)})
       /\ exists(prev.fs, arg) => IsDir(fs, arg) /\ listdir(fs, arg) = {}
       /\ ~exists(prev.fs, arg) => ~exists(fs, arg) /\ fs = prev.fs

\* tickets/a held a file and a non-empty subdirectory; after the call it is an
\* empty directory and its sibling tickets/b is still there
C11_Witness ==
    /\ pc = "cleaned"
    /\ arg = << OUTPUT_DIR, NameA >>
    /\ IsFile(prev.fs, << OUTPUT_DIR, NameA, NameY >>)
    /\ IsFile(prev.fs, << OUTPUT_DIR, NameA, NameX, NameZ >>)
    /\ exists(prev.fs, << OUTPUT_DIR, NameB >>)
    /\ DOMAIN fs = { << OUTPUT_DIR >>, << OUTPUT_DIR, NameA >>,
                     << OUTPUT_DIR, NameB >> }

=============================================================================
